---- MODULE Spec2Model ----
(***************************************************************************)
(* Model of the quickquest backend: the socket.io / Firestore session      *)
(* server of src/server.js (lines 1-265), with the endEvent message        *)
(* handler it refers to as "unchanged" taken from the earlier revision in   *)
(* the same file (lines 507-519), and the in-memory leaderboard server of   *)
(* src/index.js (lines 1-73).                                              *)
(*                                                                         *)
(* Every handler is an async function.  A handler runs synchronously up to  *)
(* its next await; each await is a Firestore operation.  One action of the  *)
(* model is: the pending store operation of a handler takes effect and the  *)
(* handler runs on to its next await (or to its end).  A handler whose      *)
(* first statement is an awaited read starts with that read.                *)
(***************************************************************************)
EXTENDS Integers, Sequences, FiniteSets, TLC

\* ---------------------------------------------------------------- bounds
MaxOps == 3        \* handler invocations that get past their checks in one run
MaxShort == 2      \* the same, in the short runs of SpecShort
MaxFail == 1       \* store operations that fail in one run
MaxTick == 2       \* ticks one interval is followed for
MaxSubmit == 3     \* messages the in-memory server handles in one run
MaxRank == 4       \* the same, in the longer runs of SpecRank
MaxLen == 2        \* characters of a submitted time

\* ------------------------------------------------------------- constants
CodeBase == 1000   \* Math.floor(1000 + Math.random() * 9000)
TickMs == 100      \* setInterval(..., 100); currentTime += 100

Sockets == {1, 2}
Codes == {CodeBase, CodeBase + 1}
GameModes == {"image-scramble", "matching-pairs"}
TeamIds == {"t1"}
Names == {"A", "B"}
Alphabet == {"1", "2", "x"}

VARIABLES
  docs,                   \* eventsCollection: code -> session document
  lb,                     \* the leaderboard sub-collection of each document
  eventTimers,            \* eventTimers: code -> interval id (0: undefined)
  intervals,              \* the intervals that setInterval started and nobody cleared
  hostSocketToEventCode,  \* hostSocketToEventCode: socket -> code (0: undefined)
  rooms,                  \* socket.io rooms: code -> sockets subscribed
  conn,                   \* each socket: "open" or, once it disconnected, "closed"
  tasks,                  \* handler invocations suspended at an await
  nops,                   \* handler invocations so far that got past their checks
  nfail,                  \* store failures so far
  out,                    \* what the last step emitted, in order
  cancelled,              \* history: code -> its timer was cancelled by restartGame/endEvent
  endDone,                \* history: code -> an endEvent(code) call has returned
  hostGone,               \* history: socket -> the code it was registered for when it disconnected
  events,                 \* the in-memory server's events object (src/index.js:19)
  submitted,              \* history: the last submitTime the in-memory server handled
  lastState,              \* history: code -> state of the last gameStateUpdate sent to its
                          \* room since its record was written ("": none)
  shuf,                   \* shuffle(array): its array and currentIndex while it runs
  firstSeen               \* history: code -> the names in the order submitTime pushed them

vars == <<docs, lb, eventTimers, intervals, hostSocketToEventCode, rooms, conn,
          tasks, nops, nfail, out, cancelled, endDone, hostGone, events, submitted,
          lastState, shuf, firstSeen>>

\* ------------------------------------------------------------- documents
NoDoc == [exists |-> FALSE, hostSocketId |-> 0, state |-> "", currentGameMode |-> ""]

NewDoc(s) ==
  [exists |-> TRUE, hostSocketId |-> s, state |-> "waiting",
   currentGameMode |-> "spot-the-difference"]

NoEntries == [t \in TeamIds |-> 0]

\* ------------------------------------------------------------- messages
\* scope "room": io.to(code).emit; scope "sock": socket.emit / io.to(socketId).emit.
\* num: the timer value, the host code, or success (1) / failure (0) of a join.
Msg(scope, to, ev, num, state, gm, text, board) ==
  [scope |-> scope, to |-> to, ev |-> ev, num |-> num, state |-> state, gm |-> gm,
   text |-> text, board |-> board]

TimerUpdate(c, t) == Msg("room", c, "timerUpdate", t, "", "", "", <<>>)
EventEnded(c) == Msg("room", c, "eventEnded", 0, "", "", "", <<>>)
GameStateUpdate(c, state, gm) == Msg("room", c, "gameStateUpdate", 0, state, gm, "", <<>>)
LeaderboardUpdate(c, board) == Msg("room", c, "leaderboardUpdate", 0, "", "", "", board)
LeaderboardTo(s, board) == Msg("sock", s, "leaderboardUpdate", 0, "", "", "", board)
HostCode(s, c) == Msg("sock", s, "hostCode", c, "", "", "", <<>>)
HostCodeError(s) ==
  Msg("sock", s, "hostCodeError", 0, "", "", "Failed to create event. Please try again.", <<>>)
JoinOk(s, state, gm) == Msg("sock", s, "joinResponse", 1, state, gm, "", <<>>)
JoinFail(s, text) == Msg("sock", s, "joinResponse", 0, "", "", text, <<>>)
PlayerJoined(h) == Msg("sock", h, "playerJoined", 0, "", "", "", <<>>)

\* code 0: nothing submitted yet; had: the name had an entry, whose time was prior
\* missing: events[eventCode] was absent and submitTime returned without storing
NoSubmit ==
  [code |-> 0, name |-> "", time |-> [nan |-> TRUE, v |-> 0], had |-> FALSE,
   prior |-> [nan |-> TRUE, v |-> 0], missing |-> FALSE]

\* no scrambledOrder is being made: pc is "idle", then "loop" while shuffle runs,
\* then "done" when scrambledOrder has its value
NoShuffle == [pc |-> "idle", by |-> "", mode |-> "", array |-> <<>>, currentIndex |-> 0]

\* ------------------------------------------------------------------ Init
Init ==
  /\ docs = [c \in Codes |-> NoDoc]
  /\ lb = [c \in Codes |-> NoEntries]
  /\ eventTimers = [c \in Codes |-> 0]
  /\ intervals = {}
  /\ hostSocketToEventCode = [s \in Sockets |-> 0]
  /\ rooms = [c \in Codes |-> {}]
  /\ conn = [s \in Sockets |-> "open"]
  /\ tasks = {}
  /\ nops = 0
  /\ nfail = 0
  /\ out = <<>>
  /\ cancelled = [c \in Codes |-> FALSE]
  /\ endDone = [c \in Codes |-> FALSE]
  /\ hostGone = [s \in Sockets |-> 0]
  /\ events = [c \in Codes |-> [exists |-> FALSE, leaderboard |-> <<>>]]
  /\ submitted = NoSubmit
  /\ lastState = [c \in Codes |-> ""]
  /\ shuf = NoShuffle
  /\ firstSeen = [c \in Codes |-> <<>>]

\* ------------------------------------------------------------------ tasks
Task(n, kind, s, pc, c, gm, ret) ==
  [n |-> n, kind |-> kind, sock |-> s, pc |-> pc, code |-> c, gm |-> gm, ret |-> ret,
   snap |-> {}]

Goto(t, pc) == (tasks \ {t}) \cup {[t EXCEPT !.pc = pc]}

\* clearInterval(eventTimers[code]): the interval with that id, if still running, stops
ClearInterval(c) == {i \in intervals : i.id # eventTimers[c]}

LiveTimer(c) == \E i \in intervals : i.id = eventTimers[c]

\* endEvent(eventCode) up to its first await
EndEventEnter(c) ==
  /\ intervals' = ClearInterval(c)
  /\ eventTimers' = [eventTimers EXCEPT ![c] = 0]
  /\ out' = <<TimerUpdate(c, 0), EventEnded(c)>>
  /\ cancelled' = [cancelled EXCEPT ![c] = @ \/ LiveTimer(c)]

\* endEvent returns to its caller: createEvent goes on to draw a code and probe
\* it, the disconnect and endEvent handlers end
Return(t) ==
  /\ endDone' = [endDone EXCEPT ![t.code] = TRUE]
  /\ IF t.ret = "create"
       THEN \E code \in Codes :
              tasks' = (tasks \ {t}) \cup {[t EXCEPT !.pc = "gen_get", !.code = code]}
       ELSE tasks' = tasks \ {t}

\* ------------------------------------------------- connection, disconnect
\* socket.io takes the socket out of its rooms, then runs the disconnect listeners
Disconnect(s) ==
  /\ conn[s] = "open"
  /\ conn' = [conn EXCEPT ![s] = "closed"]
  /\ rooms' = [c \in Codes |-> rooms[c] \ {s}]
  /\ hostGone' = [hostGone EXCEPT ![s] = hostSocketToEventCode[s]]
  /\ IF hostSocketToEventCode[s] # 0
       THEN /\ EndEventEnter(hostSocketToEventCode[s])
            /\ tasks' = tasks \cup
                 {Task(0 - s, "disconnect", s, "end_get", hostSocketToEventCode[s], "", "done")}
       ELSE /\ out' = <<>>
            /\ UNCHANGED <<eventTimers, intervals, tasks, cancelled>>
  /\ UNCHANGED <<docs, lb, hostSocketToEventCode, nops, nfail, endDone, events, submitted,
                 lastState, shuf,
                 firstSeen>>

\* ------------------------------------------------------------- endEvent
\* const eventDoc = await eventDocRef.get(); if (eventDoc.exists) { delete host index; ...
EndEventGet(t) ==
  /\ t \in tasks /\ t.pc = "end_get"
  /\ out' = <<>>
  /\ IF docs[t.code].exists
       THEN /\ hostSocketToEventCode' =
                 [hostSocketToEventCode EXCEPT ![docs[t.code].hostSocketId] = 0]
            /\ tasks' = Goto(t, "end_lbget")
            /\ UNCHANGED endDone
       ELSE /\ Return(t)
            /\ UNCHANGED hostSocketToEventCode
  /\ UNCHANGED <<docs, lb, eventTimers, intervals, rooms, conn, nops, nfail, cancelled,
                 hostGone, events, submitted, lastState, shuf,
                 firstSeen>>

\* clearLeaderboard: const snap = await eventDocRef.collection('leaderboard').get()
ClearLeaderboardGet(t, next) ==
  /\ tasks' = (tasks \ {t}) \cup
       {[t EXCEPT !.pc = next, !.snap = {k \in TeamIds : lb[t.code][k] # 0}]}
  /\ out' = <<>>
  /\ UNCHANGED <<docs, lb, eventTimers, intervals, hostSocketToEventCode, rooms, conn,
                 nops, nfail, cancelled, endDone, hostGone, events, submitted, lastState, shuf,
                 firstSeen>>

\* clearLeaderboard: await batch.commit() deletes the entries the snapshot listed
ClearLeaderboardCommit(t, next) ==
  /\ lb' = [lb EXCEPT ![t.code] = [k \in TeamIds |-> IF k \in t.snap THEN 0 ELSE @[k]]]
  /\ tasks' = Goto(t, next)
  /\ out' = <<>>
  /\ UNCHANGED <<docs, eventTimers, intervals, hostSocketToEventCode, rooms, conn,
                 nops, nfail, cancelled, endDone, hostGone, events, submitted, lastState, shuf,
                 firstSeen>>

EndEventLbGet(t) ==
  /\ t \in tasks /\ t.pc = "end_lbget"
  /\ ClearLeaderboardGet(t, "end_lbdel")

EndEventLbCommit(t) ==
  /\ t \in tasks /\ t.pc = "end_lbdel"
  /\ ClearLeaderboardCommit(t, "end_del")

\* await eventDocRef.delete()
EndEventDelete(t) ==
  /\ t \in tasks /\ t.pc = "end_del"
  /\ docs' = [docs EXCEPT ![t.code] = NoDoc]
  /\ Return(t)
  /\ out' = <<>>
  /\ UNCHANGED <<lb, eventTimers, intervals, hostSocketToEventCode, rooms, conn,
                 nops, nfail, cancelled, hostGone, events, submitted, lastState, shuf,
                 firstSeen>>

\* socket.on('endEvent'): the host check, then endEvent(eventCode)
IsHost(s, data) == data.exists /\ data.hostSocketId = s

EndEventMsg(s, c) ==
  /\ conn[s] = "open" /\ nops < MaxOps
  /\ IF IsHost(s, docs[c])
       THEN /\ EndEventEnter(c)
            /\ tasks' = tasks \cup {Task(nops + 1, "endEvent", s, "end_get", c, "", "done")}
            /\ nops' = nops + 1
       ELSE /\ out' = <<>>
            /\ UNCHANGED <<eventTimers, intervals, tasks, cancelled, nops>>
  /\ UNCHANGED <<docs, lb, hostSocketToEventCode, rooms, conn, nfail, endDone, hostGone,
                 events, submitted, lastState, shuf,
                 firstSeen>>

\* ------------------------------------------------------------ createEvent
CreateEvent(s) ==
  /\ conn[s] = "open" /\ nops < MaxOps
  /\ nops' = nops + 1
  /\ IF hostSocketToEventCode[s] # 0
       THEN /\ EndEventEnter(hostSocketToEventCode[s])
            /\ tasks' = tasks \cup
                 {Task(nops + 1, "createEvent", s, "end_get", hostSocketToEventCode[s], "",
                       "create")}
       ELSE /\ \E code \in Codes :
                 tasks' = tasks \cup
                   {Task(nops + 1, "createEvent", s, "gen_get", code, "", "create")}
            /\ out' = <<>>
            /\ UNCHANGED <<eventTimers, intervals, cancelled>>
  /\ UNCHANGED <<docs, lb, hostSocketToEventCode, rooms, conn, nfail, endDone, hostGone,
                 events, submitted, lastState, shuf,
                 firstSeen>>

\* do { code = random; doc = await get(code); if (!doc.exists) break; } while (true)
GenerateCodeGet(t) ==
  /\ t \in tasks /\ t.pc = "gen_get"
  /\ IF docs[t.code].exists
       THEN \E code \in Codes : tasks' = (tasks \ {t}) \cup {[t EXCEPT !.code = code]}
       ELSE tasks' = Goto(t, "set")
  /\ out' = <<>>
  /\ UNCHANGED <<docs, lb, eventTimers, intervals, hostSocketToEventCode, rooms, conn,
                 nops, nfail, cancelled, endDone, hostGone, events, submitted, lastState, shuf,
                 firstSeen>>

\* await doc(code).set({...}); hostSocketToEventCode[socket.id] = code; join; emit
CreateSet(t) ==
  /\ t \in tasks /\ t.pc = "set"
  /\ docs' = [docs EXCEPT ![t.code] = NewDoc(t.sock)]
  /\ hostSocketToEventCode' = [hostSocketToEventCode EXCEPT ![t.sock] = t.code]
  /\ rooms' = [rooms EXCEPT ![t.code] = @ \cup {t.sock}]
  /\ out' = <<HostCode(t.sock, t.code)>>
  /\ tasks' = tasks \ {t}
  /\ endDone' = [endDone EXCEPT ![t.code] = FALSE]
  /\ lastState' = [lastState EXCEPT ![t.code] = ""]
  /\ UNCHANGED <<lb, eventTimers, intervals, conn, nops, nfail, cancelled, hostGone,
                 events, submitted, shuf, firstSeen>>

\* -------------------------------------------------------------- joinEvent
OrDefault(v, d) == IF v = "" THEN d ELSE v

\* joinEvent without its check of doc.exists
JoinRefusalNoExists(data) == IF data.state = "playing" THEN "Game in progress." ELSE ""

\* the text joinEvent refuses the snapshot with; "" when it lets the socket in
JoinRefusal(data) ==
  IF ~data.exists THEN "Invalid event code."
  ELSE IF data.state = "playing" THEN "Game in progress."
  ELSE ""

\* orderBy('time') over the leaderboard sub-collection
RECURSIVE OrderByTime(_, _)
OrderByTime(entries, keys) ==
  IF keys = {} THEN <<>>
  ELSE LET k == CHOOSE x \in keys : \A y \in keys : entries[x] <= entries[y]
       IN <<[teamId |-> k, time |-> entries[k]]>> \o OrderByTime(entries, keys \ {k})

Board(c) == OrderByTime(lb[c], {k \in TeamIds : lb[c][k] # 0})

JoinEvent(s, c) ==
  /\ conn[s] = "open" /\ nops < MaxOps
  /\ IF JoinRefusal(docs[c]) # ""
       THEN /\ out' = <<JoinFail(s, JoinRefusal(docs[c]))>>
            /\ UNCHANGED <<rooms, tasks, nops>>
       ELSE /\ rooms' = [rooms EXCEPT ![c] = @ \cup {s}]
            /\ out' = <<JoinOk(s, OrDefault(docs[c].state, "waiting"),
                              OrDefault(docs[c].currentGameMode, "spot-the-difference")),
                        PlayerJoined(docs[c].hostSocketId)>>
            /\ tasks' = tasks \cup {Task(nops + 1, "joinEvent", s, "join_lb", c, "", "done")}
            /\ nops' = nops + 1
  /\ UNCHANGED <<docs, lb, eventTimers, intervals, hostSocketToEventCode, conn, nfail,
                 cancelled, endDone, hostGone, events, submitted, lastState, shuf,
                 firstSeen>>

\* the first read of joinEvent throws: catch (e) { emit joinResponse 'Server error.' }
JoinEventGetFail(s, c) ==
  /\ conn[s] = "open" /\ nops < MaxOps /\ nfail < MaxFail
  /\ nfail' = nfail + 1
  /\ out' = <<JoinFail(s, "Server error.")>>
  /\ UNCHANGED <<docs, lb, eventTimers, intervals, hostSocketToEventCode, rooms, conn,
                 tasks, nops, cancelled, endDone, hostGone, events, submitted, lastState, shuf,
                 firstSeen>>

\* const leaderboardSnapshot = await ...orderBy('time').get(); emit leaderboardUpdate
JoinLeaderboard(t) ==
  /\ t \in tasks /\ t.pc = "join_lb"
  /\ out' = <<LeaderboardTo(t.sock, Board(t.code))>>
  /\ tasks' = tasks \ {t}
  /\ UNCHANGED <<docs, lb, eventTimers, intervals, hostSocketToEventCode, rooms, conn,
                 nops, nfail, cancelled, endDone, hostGone, events, submitted, lastState, shuf,
                 firstSeen>>

\* -------------------------------------------------------------- startGame
\* what startGame emits between its read and its update
StartGameEmits(c, gm) == <<TimerUpdate(c, 0), GameStateUpdate(c, "playing", gm)>>

StartGame(s, c, gm) ==
  /\ conn[s] = "open" /\ nops < MaxOps
  /\ IF IsHost(s, docs[c])
       THEN /\ intervals' = ClearInterval(c)
            /\ out' = StartGameEmits(c, gm)
            /\ lastState' = [lastState EXCEPT ![c] = "playing"]
            /\ tasks' = tasks \cup {Task(nops + 1, "startGame", s, "sg_upd", c, gm, "done")}
            /\ nops' = nops + 1
       ELSE /\ out' = <<>>
            /\ UNCHANGED <<intervals, tasks, nops, lastState>>
  /\ UNCHANGED <<docs, lb, eventTimers, hostSocketToEventCode, rooms, conn, nfail,
                 cancelled, endDone, hostGone, events, submitted, shuf,
                 firstSeen>>

\* await eventDoc.update({state: 'playing', ...}) rejects when the document is gone;
\* then eventTimers[eventCode] = setInterval(...)
StartGameUpdate(t) ==
  /\ t \in tasks /\ t.pc = "sg_upd"
  /\ IF docs[t.code].exists
       THEN /\ docs' = [docs EXCEPT ![t.code].state = "playing",
                                    ![t.code].currentGameMode = t.gm]
            /\ eventTimers' = [eventTimers EXCEPT ![t.code] = t.n]
            /\ intervals' = intervals \cup {[id |-> t.n, code |-> t.code, time |-> 0]}
            /\ cancelled' = [cancelled EXCEPT ![t.code] = FALSE]
       ELSE UNCHANGED <<docs, eventTimers, intervals, cancelled>>
  /\ tasks' = tasks \ {t}
  /\ out' = <<>>
  /\ UNCHANGED <<lb, hostSocketToEventCode, rooms, conn, nops, nfail, endDone, hostGone,
                 events, submitted, lastState, shuf,
                 firstSeen>>

\* the setInterval callback: currentTime += 100; emit timerUpdate
Tick(i) ==
  /\ i \in intervals /\ i.time < MaxTick * TickMs
  /\ intervals' = (intervals \ {i}) \cup {[i EXCEPT !.time = @ + TickMs]}
  /\ out' = <<TimerUpdate(i.code, i.time + TickMs)>>
  /\ UNCHANGED <<docs, lb, eventTimers, hostSocketToEventCode, rooms, conn, tasks, nops,
                 nfail, cancelled, endDone, hostGone, events, submitted, lastState, shuf,
                 firstSeen>>

\* ------------------------------------------------------------ restartGame
RestartGame(s, c, gm) ==
  /\ conn[s] = "open" /\ nops < MaxOps
  /\ IF IsHost(s, docs[c])
       THEN /\ intervals' = ClearInterval(c)
            /\ cancelled' = [cancelled EXCEPT ![c] = @ \/ LiveTimer(c)]
            /\ out' = <<TimerUpdate(c, 0)>>
            /\ tasks' = tasks \cup
                 {Task(nops + 1, "restartGame", s, "rg_lbget", c, gm, "done")}
            /\ nops' = nops + 1
       ELSE /\ out' = <<>>
            /\ UNCHANGED <<intervals, tasks, cancelled, nops>>
  /\ UNCHANGED <<docs, lb, eventTimers, hostSocketToEventCode, rooms, conn, nfail,
                 endDone, hostGone, events, submitted, lastState, shuf,
                 firstSeen>>

RestartLbGet(t) ==
  /\ t \in tasks /\ t.pc = "rg_lbget"
  /\ ClearLeaderboardGet(t, "rg_lbdel")

RestartLbCommit(t) ==
  /\ t \in tasks /\ t.pc = "rg_lbdel"
  /\ ClearLeaderboardCommit(t, "rg_upd")

\* await eventDocRef.update({state: 'waiting', ...}); emit leaderboardUpdate, gameStateUpdate
RestartUpdate(t) ==
  /\ t \in tasks /\ t.pc = "rg_upd"
  /\ IF docs[t.code].exists
       THEN /\ docs' = [docs EXCEPT ![t.code].state = "waiting",
                                    ![t.code].currentGameMode = t.gm]
            /\ out' = <<LeaderboardUpdate(t.code, <<>>),
                        GameStateUpdate(t.code, "waiting", t.gm)>>
            /\ lastState' = [lastState EXCEPT ![t.code] = "waiting"]
       ELSE /\ out' = <<>>
            /\ UNCHANGED <<docs, lastState>>
  /\ tasks' = tasks \ {t}
  /\ UNCHANGED <<lb, eventTimers, intervals, hostSocketToEventCode, rooms, conn, nops,
                 nfail, cancelled, endDone, hostGone, events, submitted, shuf,
                 firstSeen>>

\* ------------------------------------------------------------- submitTime
\* the times a team submits
SubmitTimes == {1, 2}

\* socket.on('submitTime'): await leaderboard.doc(teamId).set(scoreData).  The
\* handler never uses its socket, so the task records none (0).
SubmitTime(c, k, time) ==
  /\ (\E s \in Sockets : conn[s] = "open") /\ nops < MaxOps
  /\ nops' = nops + 1
  /\ lb' = [lb EXCEPT ![c][k] = time]
  /\ tasks' = tasks \cup {Task(nops + 1, "submitTime", 0, "st_lb", c, "", "done")}
  /\ out' = <<>>
  /\ UNCHANGED <<docs, eventTimers, intervals, hostSocketToEventCode, rooms, conn, nfail,
                 cancelled, endDone, hostGone, events, submitted, lastState, shuf,
                 firstSeen>>

\* await leaderboard.orderBy('time').get(); io.to(eventCode).emit('leaderboardUpdate', ...)
SubmitBoard(t) ==
  /\ t \in tasks /\ t.pc = "st_lb"
  /\ out' = <<LeaderboardUpdate(t.code, Board(t.code))>>
  /\ tasks' = tasks \ {t}
  /\ UNCHANGED <<docs, lb, eventTimers, intervals, hostSocketToEventCode, rooms, conn,
                 nops, nfail, cancelled, endDone, hostGone, events, submitted, lastState, shuf,
                 firstSeen>>

\* ---------------------------------------------------------- store failure
\* The pending store operation of t rejects.  endEvent logs and returns; createEvent
\* answers hostCodeError; joinEvent answers 'Server error.'; startGame and
\* restartGame log and end.
EndPcs == {"end_get", "end_lbget", "end_lbdel", "end_del"}

\* a catch block that only logs
CatchLogsOnly(t) == <<>>

\* what the catch block of the handler of t emits
CatchEmits(t) ==
  IF t.pc \in {"gen_get", "set"} THEN <<HostCodeError(t.sock)>>
  ELSE IF t.pc = "join_lb" THEN <<JoinFail(t.sock, "Server error.")>>
  ELSE <<>>

StoreFail(t) ==
  /\ t \in tasks /\ nfail < MaxFail
  /\ nfail' = nfail + 1
  /\ IF t.pc \in EndPcs
       THEN /\ Return(t)
            /\ out' = <<>>
       ELSE /\ tasks' = tasks \ {t}
            /\ out' = CatchEmits(t)
            /\ UNCHANGED endDone
  /\ UNCHANGED <<docs, lb, eventTimers, intervals, hostSocketToEventCode, rooms, conn,
                 nops, cancelled, hostGone, events, submitted, lastState, shuf,
                 firstSeen>>

\* ------------------------------------------------------------------ Next
Next ==
  \/ \E s \in Sockets : Disconnect(s)
  \/ \E s \in Sockets : CreateEvent(s)
  \/ \E s \in Sockets, c \in Codes : JoinEvent(s, c)
  \/ \E s \in Sockets, c \in Codes : JoinEventGetFail(s, c)
  \/ \E s \in Sockets, c \in Codes, gm \in GameModes : StartGame(s, c, gm)
  \/ \E s \in Sockets, c \in Codes, gm \in GameModes : RestartGame(s, c, gm)
  \/ \E s \in Sockets, c \in Codes : EndEventMsg(s, c)
  \/ \E c \in Codes, k \in TeamIds, time \in SubmitTimes : SubmitTime(c, k, time)
  \/ \E t \in tasks : SubmitBoard(t)
  \/ \E t \in tasks : EndEventGet(t)
  \/ \E t \in tasks : EndEventLbGet(t)
  \/ \E t \in tasks : EndEventLbCommit(t)
  \/ \E t \in tasks : EndEventDelete(t)
  \/ \E t \in tasks : GenerateCodeGet(t)
  \/ \E t \in tasks : CreateSet(t)
  \/ \E t \in tasks : JoinLeaderboard(t)
  \/ \E t \in tasks : StartGameUpdate(t)
  \/ \E t \in tasks : RestartLbGet(t)
  \/ \E t \in tasks : RestartLbCommit(t)
  \/ \E t \in tasks : RestartUpdate(t)
  \/ \E i \in intervals : Tick(i)
  \/ \E t \in tasks : StoreFail(t)

Spec == Init /\ [][Next]_vars

\* The same program in runs of at most MaxShort handler invocations: a message
\* arrives only while fewer than MaxShort handlers have been started, except
\* that a joinEvent which is refused, and so starts nothing, arrives at any time.
Short == nops < MaxShort

NextShort ==
  \/ \E s \in Sockets : Disconnect(s)
  \/ Short /\ \E s \in Sockets : CreateEvent(s)
  \/ (\E s \in Sockets, c \in Codes : JoinEvent(s, c)) /\ nops' <= MaxShort
  \/ Short /\ \E s \in Sockets, c \in Codes : JoinEventGetFail(s, c)
  \/ Short /\ \E s \in Sockets, c \in Codes, gm \in GameModes : StartGame(s, c, gm)
  \/ Short /\ \E s \in Sockets, c \in Codes, gm \in GameModes : RestartGame(s, c, gm)
  \/ Short /\ \E s \in Sockets, c \in Codes : EndEventMsg(s, c)
  \/ Short /\ \E c \in Codes, k \in TeamIds, time \in SubmitTimes : SubmitTime(c, k, time)
  \/ \E t \in tasks : SubmitBoard(t)
  \/ \E t \in tasks : EndEventGet(t)
  \/ \E t \in tasks : EndEventLbGet(t)
  \/ \E t \in tasks : EndEventLbCommit(t)
  \/ \E t \in tasks : EndEventDelete(t)
  \/ \E t \in tasks : GenerateCodeGet(t)
  \/ \E t \in tasks : CreateSet(t)
  \/ \E t \in tasks : JoinLeaderboard(t)
  \/ \E t \in tasks : StartGameUpdate(t)
  \/ \E t \in tasks : RestartLbGet(t)
  \/ \E t \in tasks : RestartLbCommit(t)
  \/ \E t \in tasks : RestartUpdate(t)
  \/ \E i \in intervals : Tick(i)
  \/ \E t \in tasks : StoreFail(t)

SpecShort == Init /\ [][NextShort]_vars

\* ------------------------------------------- createEvent under fair scheduling
\* the next step of a suspended createEvent invocation, in endEvent or in its own loop
CreateStep(t) ==
  \/ EndEventGet(t)
  \/ EndEventLbGet(t)
  \/ EndEventLbCommit(t)
  \/ EndEventDelete(t)
  \/ GenerateCodeGet(t)
  \/ CreateSet(t)

\* a probe of invocation n finds its code taken and the next draw is c
Redraw(n, c) ==
  \E t \in tasks :
    /\ t.n = n /\ t.pc = "gen_get" /\ docs[t.code].exists
    /\ GenerateCodeGet(t)
    /\ [t EXCEPT !.code = c] \in tasks'

TaskIds == 1..MaxOps

\* createEvent messages only, and a store that never fails
NextCreate ==
  \/ \E s \in Sockets : CreateEvent(s)
  \/ \E t \in tasks : CreateStep(t)

\* the store answers every request, and Math.random() yields every code again
\* and again
SpecCreate ==
  /\ Init /\ [][NextCreate]_vars
  /\ \A n \in TaskIds : WF_vars(\E t \in tasks : t.n = n /\ CreateStep(t))
  /\ \A n \in TaskIds, c \in Codes : SF_vars(Redraw(n, c))

\* ------------------------------------------- the in-memory server (index.js)
\* A submitted time is a string, written here as the sequence of its characters.
TimeInputs == UNION {[1..n -> Alphabet] : n \in 1..MaxLen}

IsDigit(ch) == ch \in {"1", "2"}

DigitVal(ch) == IF ch = "1" THEN 1 ELSE 2

NaN == [nan |-> TRUE, v |-> 0]

Num(v) == [nan |-> FALSE, v |-> v]

\* parseFloat: the value of the longest numeric prefix, NaN when there is none
RECURSIVE ParseDigits(_, _, _)
ParseDigits(str, i, acc) ==
  IF i > Len(str) \/ ~IsDigit(str[i]) THEN acc
  ELSE ParseDigits(str, i + 1, 10 * acc + DigitVal(str[i]))

ParseFloat(str) ==
  IF Len(str) = 0 \/ ~IsDigit(str[1]) THEN NaN ELSE Num(ParseDigits(str, 1, 0))

\* JavaScript's a < b on numbers: false when either is NaN
Less(a, b) == ~a.nan /\ ~b.nan /\ a.v < b.v

\* latest write wins, as in leaderboard.doc(teamId).set(scoreData)
AlwaysReplace(time, existing) == TRUE

\* else if (time < existing.time) existing.time = time
Improves(time, existing) == Less(time, existing)

\* a lookup that never finds the entry
FindNothing(board, name) == 0

\* leaderboard.find(p => p.name === submission.name): its index, 0 when absent
Find(board, name) ==
  IF \E i \in 1..Len(board) : board[i].name = name
    THEN CHOOSE i \in 1..Len(board) :
           board[i].name = name /\ \A j \in 1..(i - 1) : board[j].name # name
    ELSE 0

Upsert(board, name, time) ==
  LET i == Find(board, name)
  IN IF i = 0 THEN Append(board, [name |-> name, time |-> time])
     ELSE IF Improves(time, board[i].time) THEN [board EXCEPT ![i].time = time]
     ELSE board

\* leaderboard.sort((a, b) => a.time - b.time): a stable sort.  A NaN difference
\* counts as 0, so with a NaN among unequal times the comparator is not
\* consistent and the order is whatever the engine produces.
RECURSIVE InsertSorted(_, _)
InsertSorted(sorted, e) ==
  IF sorted = <<>> THEN <<e>>
  ELSE IF Less(e.time, sorted[Len(sorted)].time)
    THEN Append(InsertSorted(SubSeq(sorted, 1, Len(sorted) - 1), e), sorted[Len(sorted)])
    ELSE Append(sorted, e)

RECURSIVE StableSort(_)
StableSort(board) ==
  IF board = <<>> THEN <<>>
  ELSE InsertSorted(StableSort(SubSeq(board, 1, Len(board) - 1)), board[Len(board)])

Consistent(board) ==
  \/ \A i \in 1..Len(board) : ~board[i].time.nan
  \/ \A i, j \in 1..Len(board) :
       (~board[i].time.nan /\ ~board[j].time.nan) => board[i].time.v = board[j].time.v

Reorderings(board) ==
  {[i \in 1..Len(board) |-> board[p[i]]] :
     p \in {q \in [1..Len(board) -> 1..Len(board)] :
              \A i, j \in 1..Len(board) : q[i] = q[j] => i = j}}

SortResults(board) ==
  IF Consistent(board) THEN {StableSort(board)} ELSE Reorderings(board)

\* socket.on("joinEvent", (eventCode, userData)): valid says userData.playerName is there
MemJoin(s, c, valid, budget) ==
  /\ conn[s] = "open" /\ nops < budget
  /\ nops' = nops + 1
  /\ IF valid
       THEN /\ events' = [events EXCEPT ![c].exists = TRUE]
            /\ rooms' = [rooms EXCEPT ![c] = @ \cup {s}]
            /\ out' = <<Msg("sock", s, "joinedEvent", c, "", "", "", events[c].leaderboard)>>
       ELSE /\ out' = <<>>
            /\ UNCHANGED <<events, rooms>>
  /\ UNCHANGED <<docs, lb, eventTimers, intervals, hostSocketToEventCode, conn, tasks,
                 nfail, cancelled, endDone, hostGone, submitted, lastState, shuf,
                 firstSeen>>

\* submitTime that only looks at the name
IgnoredNoName(c, name) == name = ""

\* if (!submission || !submission.name) return; if (!events[eventCode]) return;
Ignored(c, name) == name = "" \/ ~events[c].exists

\* socket.on("submitTime", (eventCode, submission)): name "" stands for a missing name
\* (the time is parsed only after the two early returns)
MemSubmit(s, c, name, str, budget) ==
  /\ conn[s] = "open" /\ nops < budget
  /\ nops' = nops + 1
  /\ IF Ignored(c, name)
       THEN /\ out' = <<>>
            /\ submitted' =
                 [code |-> c, name |-> name, time |-> NaN, had |-> FALSE,
                  prior |-> NaN, missing |-> ~events[c].exists]
            /\ UNCHANGED <<events, firstSeen>>
       ELSE \E sorted \in SortResults(Upsert(events[c].leaderboard, name, ParseFloat(str))) :
              /\ events' = [events EXCEPT ![c].leaderboard = sorted]
              /\ out' = <<LeaderboardUpdate(c, sorted)>>
              /\ submitted' =
                   [code |-> c, name |-> name, time |-> ParseFloat(str),
                    had |-> Find(events[c].leaderboard, name) # 0,
                    prior |-> IF Find(events[c].leaderboard, name) # 0
                                THEN events[c].leaderboard[Find(events[c].leaderboard, name)].time
                                ELSE NaN,
                    missing |-> FALSE]
              /\ firstSeen' = IF Find(events[c].leaderboard, name) = 0
                                THEN [firstSeen EXCEPT ![c] = Append(@, name)]
                                ELSE firstSeen
  /\ UNCHANGED <<docs, lb, eventTimers, intervals, hostSocketToEventCode, rooms, conn,
                 tasks, nfail, cancelled, endDone, hostGone, lastState, shuf>>

MemJoinEvent(s, c, valid) == MemJoin(s, c, valid, MaxSubmit)

MemSubmitTime(s, c, name, str) == MemSubmit(s, c, name, str, MaxSubmit)

\* socket.on("disconnect"): logs; socket.io has taken the socket out of its rooms
MemDisconnect(s) ==
  /\ conn[s] = "open"
  /\ conn' = [conn EXCEPT ![s] = "closed"]
  /\ rooms' = [c \in Codes |-> rooms[c] \ {s}]
  /\ out' = <<>>
  /\ UNCHANGED <<docs, lb, eventTimers, intervals, hostSocketToEventCode, tasks, nops,
                 nfail, cancelled, endDone, hostGone, events, submitted, lastState, shuf,
                 firstSeen>>

NextMem ==
  \/ \E s \in Sockets : MemDisconnect(s)
  \/ \E s \in Sockets, c \in Codes, valid \in BOOLEAN : MemJoinEvent(s, c, valid)
  \/ \E s \in Sockets, c \in Codes, name \in Names \cup {""}, str \in TimeInputs :
       MemSubmitTime(s, c, name, str)

SpecMem == Init /\ [][NextMem]_vars

\* ------------------------------------------------ scrambledOrder and shuffle
\* the gameMode of a startGame or restartGame message; "undefined": it has none
ModeInputs == GameModes \cup {"spot-the-difference", "undefined"}

ScrambleOps == {"startGame", "restartGame"}

\* the array literal handed to shuffle for a game mode; <<>>: shuffle is not called
Payload(gm) ==
  IF gm = "image-scramble" THEN <<1, 2, 3, 4, 5, 6, 7, 8, 9>>
  ELSE IF gm = "matching-pairs"
    THEN <<"/images/card1.jpg", "/images/card1.jpg",
           "/images/card2.jpg", "/images/card2.jpg",
           "/images/card3.jpg", "/images/card3.jpg">>
  ELSE <<>>

\* an assignment that copies one way only
SwapLossy(array, i, j) == [array EXCEPT ![i] = array[j]]

\* [array[i], array[j]] = [array[j], array[i]], on positions counted from 1
Swap(array, i, j) == [array EXCEPT ![i] = array[j], ![j] = array[i]]

\* let scrambledOrder = []; if (gameMode === ...) scrambledOrder = shuffle([...]):
\* up to the first test of the loop
ScrambleBegin(op, gm) ==
  /\ shuf.pc = "idle"
  /\ shuf' = [pc |-> IF Payload(gm) = <<>> THEN "done" ELSE "loop",
              by |-> op, mode |-> gm, array |-> Payload(gm),
              currentIndex |-> Len(Payload(gm))]
  /\ UNCHANGED <<docs, lb, eventTimers, intervals, hostSocketToEventCode, rooms, conn,
                 tasks, nops, nfail, out, cancelled, endDone, hostGone, events,
                 submitted, lastState, firstSeen>>

\* one turn of the loop with Math.floor(Math.random() * currentIndex) = randomIndex,
\* and the return when currentIndex has reached 0
ShuffleStep(randomIndex) ==
  /\ shuf.pc = "loop"
  /\ randomIndex \in 0..(shuf.currentIndex - 1)
  /\ shuf' = [shuf EXCEPT
                !.array = Swap(@, shuf.currentIndex, randomIndex + 1),
                !.currentIndex = @ - 1,
                !.pc = IF shuf.currentIndex = 1 THEN "done" ELSE "loop"]
  /\ UNCHANGED <<docs, lb, eventTimers, intervals, hostSocketToEventCode, rooms, conn,
                 tasks, nops, nfail, out, cancelled, endDone, hostGone, events,
                 submitted, lastState, firstSeen>>

NextShuffle ==
  \/ \E op \in ScrambleOps, gm \in ModeInputs : ScrambleBegin(op, gm)
  \/ \E randomIndex \in 0..(shuf.currentIndex - 1) : ShuffleStep(randomIndex)

SpecShuffle == Init /\ [][NextShuffle]_vars

\* the same server followed for MaxRank messages
NextRank ==
  \/ \E s \in Sockets : MemDisconnect(s)
  \/ \E s \in Sockets, c \in Codes, valid \in BOOLEAN : MemJoin(s, c, valid, MaxRank)
  \/ \E s \in Sockets, c \in Codes, name \in Names \cup {""}, str \in TimeInputs :
       MemSubmit(s, c, name, str, MaxRank)

SpecRank == Init /\ [][NextRank]_vars

\* -------------------------------------------------------------- claims
HasEntry(c, name) == Find(events[c].leaderboard, name) # 0

StoredTime(c, name) == events[c].leaderboard[Find(events[c].leaderboard, name)].time

Stepped(t) == t \in tasks /\ t \notin tasks'

NoBroadcastTo(c) == \A i \in 1..Len(out) : ~(out[i].scope = "room" /\ out[i].to = c)

SessionUntouched(c) ==
  /\ docs' = docs
  /\ lb' = lb
  /\ eventTimers' = eventTimers
  /\ hostSocketToEventCode' = hostSocketToEventCode
  /\ NoBroadcastTo(c)'

HostOps == {"startGame", "restartGame", "endEvent"}

\* C1: host authority.  Whenever the session record of a code names another
\* connection as hostSocketId, no step of a startGame, restartGame or endEvent
\* message of this connection for that code (its arrival or a later step of its
\* handler) changes the session records, the leaderboards, the timer map or the
\* host index, or broadcasts to the room of the code.
C1_HostAuthority ==
  [][/\ \A t \in tasks :
          (Stepped(t) /\ t.kind \in HostOps /\ docs[t.code].exists
             /\ docs[t.code].hostSocketId # t.sock)
            => SessionUntouched(t.code)
     /\ \A s \in Sockets, c \in Codes :
          (/\ docs[c].exists /\ docs[c].hostSocketId # s
           /\ \/ EndEventMsg(s, c)
              \/ \E gm \in GameModes : StartGame(s, c, gm) \/ RestartGame(s, c, gm))
            => SessionUntouched(c)]_vars

\* C2: code uniqueness.  No two connections are registered (were sent hostCode)
\* for the same code at once, and createEvent never writes its new record over an
\* existing one.
C2_Uniqueness ==
  /\ [](\A s1, s2 \in Sockets :
          (s1 # s2 /\ hostSocketToEventCode[s1] # 0)
            => hostSocketToEventCode[s1] # hostSocketToEventCode[s2])
  /\ [][\A t \in tasks : CreateSet(t) => ~docs[t.code].exists]_vars

\* C4: timer cancellation.  No timerUpdate with a non-zero value is broadcast for
\* a code whose timer restartGame or endEvent cancelled, until a startGame sets a
\* new timer for the code.
C4_NoTickAfterCancel ==
  \A i \in 1..Len(out) :
    (out[i].ev = "timerUpdate" /\ out[i].num # 0) => ~cancelled[out[i].to]

EntersEndEvent(c) ==
  \E t \in tasks' : t.pc = "end_get" /\ t.code = c /\ ~\E u \in tasks : u.n = t.n

\* C5: termination idempotence.  A call of endEvent(code) that begins after an
\* earlier call of endEvent(code) for the same session has returned broadcasts
\* no eventEnded.
C5_EndOnce ==
  [][\A c \in Codes :
       (endDone[c] /\ EntersEndEvent(c))
         => \A i \in 1..Len(out') : out'[i].ev # "eventEnded"]_vars

\* C6: at most one timer per session.  Every code has at most one running
\* interval, and every running interval is the one eventTimers holds for its code.
C6_OneTimer ==
  /\ \A c \in Codes : Cardinality({i \in intervals : i.code = c}) <= 1
  /\ \A i \in intervals : eventTimers[i.code] = i.id

\* C7: one session per host.  At most one session record names a given
\* connection as hostSocketId.
C7_OneSessionPerHost ==
  \A s \in Sockets :
    Cardinality({c \in Codes : docs[c].exists /\ docs[c].hostSocketId = s}) <= 1

C9_HostDisconnect ==
  /\ [][\A s \in Sockets :
          Disconnect(s) =>
            IF hostSocketToEventCode[s] # 0
              THEN out' = <<TimerUpdate(hostSocketToEventCode[s], 0),
                            EventEnded(hostSocketToEventCode[s])>>
              ELSE /\ out' = <<>>
                   /\ UNCHANGED <<docs, lb, eventTimers, intervals, hostSocketToEventCode>>]_vars
  /\ []((tasks = {} /\ nfail = 0) =>
          \A s \in Sockets :
            hostGone[s] # 0 =>
              ~(docs[hostGone[s]].exists /\ docs[hostGone[s]].hostSocketId = s))

\* C10: startGame broadcast sequence.  A startGame of the host broadcasts
\* gameStateUpdate{playing} and then timerUpdate(0); a tick broadcasts the
\* interval's time plus 100, never 0; and the ticks a room gets never repeat or
\* fall back: when a room is sent a tick, no other interval of the room has
\* already reached that value.
C10_StartSequence ==
  /\ [][/\ \A s \in Sockets, c \in Codes, gm \in GameModes :
             (StartGame(s, c, gm) /\ IsHost(s, docs[c]))
               => out' = <<GameStateUpdate(c, "playing", gm), TimerUpdate(c, 0)>>
        /\ \A i \in intervals :
             Tick(i) => out' = <<TimerUpdate(i.code, i.time + TickMs)>>]_vars
  /\ [](\A k \in 1..Len(out) :
          (out[k].ev = "timerUpdate" /\ out[k].num # 0)
            => Cardinality({j \in intervals :
                              j.code = out[k].to /\ j.time >= out[k].num}) <= 1)

\* C11: restartGame, order and effect.  A restartGame of the recorded host
\* broadcasts timerUpdate(0) when it passes its check and leaves no running timer
\* in eventTimers for the code; when its update completes it broadcasts
\* leaderboardUpdate([]) and then gameStateUpdate{waiting, gameMode}, the stored
\* state is waiting, the leaderboard of the session has no entry and no timer
\* runs for the code.
C11_RestartEffect ==
  [][/\ \A s \in Sockets, c \in Codes, gm \in GameModes :
          (RestartGame(s, c, gm) /\ IsHost(s, docs[c]))
            => (out' = <<TimerUpdate(c, 0)>> /\ ~LiveTimer(c)')
     /\ \A t \in tasks :
          (RestartUpdate(t) /\ docs[t.code].exists)
            => /\ out' = <<LeaderboardUpdate(t.code, <<>>),
                           GameStateUpdate(t.code, "waiting", t.gm)>>
               /\ docs'[t.code].state = "waiting"
               /\ lb'[t.code] = NoEntries
               /\ \A i \in intervals' : i.code # t.code]_vars

\* C12: termination post-state.  Every call of endEvent(code) begins by sending
\* the room timerUpdate(0) and then eventEnded; when a call that found the
\* session has deleted its record, the record is absent, no timer is held or
\* running for the code, the leaderboard of the code has no entry and no
\* connection is registered as host of the code.
C12_EndPostState ==
  [][/\ \A c \in Codes :
          EntersEndEvent(c) => out' = <<TimerUpdate(c, 0), EventEnded(c)>>
     /\ \A t \in tasks :
          EndEventDelete(t)
            => /\ ~docs'[t.code].exists
               /\ eventTimers'[t.code] = 0
               /\ \A i \in intervals' : i.code # t.code
               /\ lb'[t.code] = NoEntries
               /\ \A s \in Sockets : hostSocketToEventCode'[s] # t.code]_vars

\* C13: create failure.  When the probe read or the set of a createEvent fails,
\* the connection is sent hostCodeError and nothing else, the handler is over (so
\* no hostCode follows for this request), and no session record, host index
\* entry or room membership is created or changed.
C13_CreateFailure ==
  [][\A t \in tasks :
       (StoreFail(t) /\ t.kind = "createEvent" /\ t.pc \in {"gen_get", "set"})
         => /\ out' = <<HostCodeError(t.sock)>>
            /\ \A u \in tasks' : u.n # t.n
            /\ docs' = docs
            /\ hostSocketToEventCode' = hostSocketToEventCode
            /\ rooms' = rooms]_vars

\* a connection was sent hostCodeError, has no handler left, hosts nothing and
\* is in no room
C13_Witness ==
  \E s \in Sockets :
    /\ out = <<HostCodeError(s)>>
    /\ \A t \in tasks : t.sock # s
    /\ hostSocketToEventCode[s] = 0
    /\ \A c \in Codes : s \notin rooms[c] /\ ~docs[c].exists

\* C14: join degrades gracefully.  When the leaderboard read of a joinEvent that
\* was let in fails, the connection is sent an empty leaderboardUpdate and no
\* joinResponse, and it stays in the room.
C14_JoinDegrades ==
  [][\A t \in tasks :
       (StoreFail(t) /\ t.pc = "join_lb")
         => /\ out' = <<LeaderboardTo(t.sock, <<>>)>>
            /\ rooms' = rooms]_vars

C16_OnePerParticipant ==
  /\ [](\A c \in Codes : \A i, j \in 1..Len(events[c].leaderboard) :
          i # j => events[c].leaderboard[i].name # events[c].leaderboard[j].name)
  /\ [][\A c \in Codes : \A i \in 1..Len(events[c].leaderboard) :
          \E j \in 1..Len(events'[c].leaderboard) :
            events'[c].leaderboard[j].name = events[c].leaderboard[i].name]_vars

\* a participant with an entry submitted a lower time: the entry was replaced
\* and the leaderboard still holds one entry
C16_Witness ==
  /\ submitted.code # 0 /\ submitted.had
  /\ Less(submitted.time, submitted.prior)
  /\ Len(events[submitted.code].leaderboard) = 1
  /\ events[submitted.code].leaderboard[1] =
       [name |-> submitted.name, time |-> submitted.time]

\* the place of a name among the first submissions of a code
FirstPos(c, name) ==
  CHOOSE i \in 1..Len(firstSeen[c]) : firstSeen[c][i] = name

\* C17: ranking.  Every leaderboardUpdate of the in-memory server lists the
\* stored entries of the session, no entry has a time lower than an entry
\* listed before it, and of two entries with the same time the one whose name
\* was submitted first is listed first.
C17_Ranking ==
  \A m \in 1..Len(out) :
    out[m].ev = "leaderboardUpdate" =>
      LET b == out[m].board
      IN /\ b = events[out[m].to].leaderboard
         /\ \A p, q \in 1..Len(b) :
              p < q =>
                /\ ~Less(b[q].time, b[p].time)
                /\ (~b[p].time.nan /\ b[p].time = b[q].time)
                     => FirstPos(out[m].to, b[p].name) < FirstPos(out[m].to, b[q].name)

\* how many times e occurs in array
Occurs(array, e) == Cardinality({i \in 1..Len(array) : array[i] = e})

SameElements(a, b) ==
  /\ Len(a) = Len(b)
  /\ \A i \in 1..Len(b) : Occurs(a, b[i]) = Occurs(b, b[i])

\* C18: shuffle validity.  For image-scramble and matching-pairs the
\* scrambledOrder that startGame and restartGame compute has the length and
\* the elements, each as many times, of the mode's payload, whatever indices
\* are drawn (and so has the array at every turn of the loop); for any other
\* game mode, an absent one included, scrambledOrder is empty.
C18_ShuffleValid ==
  /\ shuf.pc # "idle" => SameElements(shuf.array, Payload(shuf.mode))
  /\ (shuf.pc = "done" /\ shuf.mode \notin {"image-scramble", "matching-pairs"})
       => shuf.array = <<>>
  /\ shuf.pc = "done" => shuf.currentIndex = 0

\* restartGame got a scrambledOrder for image-scramble in which no element is
\* where the payload had it
C18_Witness ==
  /\ shuf.pc = "done" /\ shuf.by = "restartGame" /\ shuf.mode = "image-scramble"
  /\ Len(shuf.array) = 9
  /\ \A i \in 1..9 : shuf.array[i] # i

\* C19: timer only while playing.  Whenever an interval started by startGame
\* is live for a code, the session record of the code exists and its stored
\* state is playing.
C19_TimerOnlyPlaying ==
  \A i \in intervals : docs[i.code].exists /\ docs[i.code].state = "playing"

\* C20: state/broadcast consistency.  In a run without store failures,
\* whenever no handler invocation is suspended for a code whose session record
\* exists and to whose room a gameStateUpdate has been broadcast since the
\* record was written, the state of the last such broadcast is the state
\* stored in the record.
C20_StateBroadcast ==
  \A c \in Codes :
    (/\ nfail = 0
     /\ \A t \in tasks : t.code # c
     /\ docs[c].exists
     /\ lastState[c] # "")
      => lastState[c] = docs[c].state

\* C21: leaderboard broadcast consistency.  In a run without store failures,
\* when a step broadcasts a leaderboardUpdate to the room of an existing
\* session and leaves no handler invocation suspended for its code, the
\* broadcast board is the ranked content of the stored leaderboard.
C21_BoardBroadcast ==
  \A m \in 1..Len(out) :
    (/\ nfail = 0
     /\ out[m].ev = "leaderboardUpdate" /\ out[m].scope = "room"
     /\ docs[out[m].to].exists
     /\ \A t \in tasks : t.code # out[m].to)
      => out[m].board = Board(out[m].to)

\* endEvent is running for the code: it has broadcast eventEnded and has not returned
Ending(c) ==
  \E t \in tasks : t.code = c /\ t.pc \in EndPcs

\* C22: ended is terminal.  From the broadcast of eventEnded for a code until
\* endEvent returns, no step broadcasts a gameStateUpdate or a leaderboardUpdate
\* to the room of the code, and no step changes the session record of the code
\* other than by deleting it.
C22_EndedTerminal ==
  [][\A c \in Codes :
       Ending(c) =>
         /\ \A m \in 1..Len(out') :
              ~(/\ out'[m].scope = "room" /\ out'[m].to = c
                /\ out'[m].ev \in {"gameStateUpdate", "leaderboardUpdate"})
         /\ docs'[c] # docs[c] => ~docs'[c].exists]_vars

\* C23: code generation terminates.  Every createEvent invocation is
\* eventually over (with a store that never fails: it has answered hostCode
\* after its set), also when every code is held by a session.
C23_CreateTerminates ==
  \A n \in TaskIds :
    (\E t \in tasks : t.n = n /\ t.kind = "createEvent")
      ~> ~(\E t \in tasks : t.n = n)

\* C24: host index consistency.  Whenever no handler invocation is suspended,
\* every entry hostSocketToEventCode[h] = c names an existing session record c
\* whose hostSocketId is h, and the host of every existing session record has
\* the entry for it.
C24_HostIndex ==
  tasks = {} =>
    /\ \A h \in Sockets :
         hostSocketToEventCode[h] # 0 => IsHost(h, docs[hostSocketToEventCode[h]])
    /\ \A c \in Codes :
         docs[c].exists => hostSocketToEventCode[docs[c].hostSocketId] = c

\* C25: room isolation across code reuse.  When a code that names no session
\* record is assigned to a new session, the room of the code holds the
\* creator and nobody else: no connection of an earlier session of the code
\* is in the room to receive the broadcasts of the new one.
C25_RoomIsolation ==
  [][\A c \in Codes :
       (~docs[c].exists /\ docs'[c].exists)
         => rooms'[c] = {docs'[c].hostSocketId}]_vars

====
